---- MODULE Spec2Model ----
(***************************************************************************)
(* Model of wain-validate/src/error.rs: the ErrorKind taxonomy, the Error  *)
(* value built by Error::new, and the two Display implementations          *)
(* (Ordinal and Error).                                                    *)
(*                                                                         *)
(* Text is modelled as TLA+ strings in which every character stands for    *)
(* one byte, so Len is the byte length (str::len) and SubSeq is a byte     *)
(* slice.  The two bytes of the UTF-8 encoding of U+00E9 (0xC3 0xA9) are   *)
(* written with the placeholder characters "#" (the lead byte) and "~"     *)
(* (the continuation byte), which occur in no other text of the model.     *)
(***************************************************************************)
EXTENDS Integers, Sequences, FiniteSets, TLC

VARIABLES err, f, result, sliced, renders, ord

vars == <<err, f, result, sliced, renders, ord>>

(***************************************************************************)
(* Bounds of the model.                                                    *)
(***************************************************************************)
MaxSrcLen == 3
MaxNum == 10
MaxTys == 2
MaxRenders == 2
MaxOrd == 123

(***************************************************************************)
(* Input alphabets.                                                        *)
(***************************************************************************)
LeadByte == "#"
ContByte == "~"
ContinuationBytes == {ContByte}
LineBreaks == {"\n", "\r"}
SourceChars == {"a", "\n", "\r", LeadByte \o ContByte}

RECURSIVE Utf8Strings(_)
Utf8Strings(n) ==
    IF n = 0 THEN {""}
    ELSE LET shorter == Utf8Strings(n - 1)
         IN  shorter \cup {s \o c : s \in shorter, c \in SourceChars}

Sources == {s \in Utf8Strings(MaxSrcLen) : Len(s) <= MaxSrcLen}

Nums == 0..MaxNum
Starts == {0, 3, MaxNum}
Bits == {8, 16, 32, 64}
Whats == {"function", "local"}
Ops == {"i32.add", "br"}
ModNames == {"env", "", "Env", "js"}
ImportNames == {"print", "foo", ""}

(***************************************************************************)
(* wain_ast::ValType and its short name (AsRef<str> / Display).            *)
(***************************************************************************)
ValType == {"I32", "I64", "F32", "F64"}

ValTypeName(ty) ==
    CASE ty = "I32" -> "i32"
      [] ty = "I64" -> "i64"
      [] ty = "F32" -> "f32"
      [] ty = "F64" -> "f64"

(***************************************************************************)
(* enum ErrorKind.                                                         *)
(***************************************************************************)
ErrorKindTags ==
    { "IndexOutOfBounds", "MultipleReturnTypes", "TooFewFuncLocalsForParams",
      "ParamTypeMismatchWithLocal", "UnknownImport", "TypeMismatch",
      "CtrlFrameEmpty", "LabelStackEmpty", "SetImmutableGlobal",
      "TooLargeAlign" }

RECURSIVE ValTypeSeqs(_)
ValTypeSeqs(n) ==
    IF n = 0 THEN {<<>>}
    ELSE LET shorter == ValTypeSeqs(n - 1)
         IN  shorter \cup {Append(s, t) : s \in shorter, t \in ValType}

ErrorKind ==
    [tag : {"IndexOutOfBounds"}, idx : Nums, upper : Starts, what : Whats]
    \cup [tag : {"MultipleReturnTypes"}, tys : ValTypeSeqs(MaxTys)]
    \cup [tag : {"TooFewFuncLocalsForParams"}, locals : Nums, params : Nums]
    \cup [tag : {"ParamTypeMismatchWithLocal"}, idx : Nums,
          param : ValType, local : ValType]
    \cup [tag : {"UnknownImport"}, mod_name : ModNames, name : ImportNames]
    \cup [tag : {"TypeMismatch"}, op : Ops, expected : ValType,
          actual : ValType]
    \cup [tag : {"CtrlFrameEmpty"}, op : Ops, frame_start : Starts,
          idx_in_op_stack : Nums]
    \cup [tag : {"LabelStackEmpty"}, op : Ops]
    \cup [tag : {"SetImmutableGlobal"}, ty : ValType, idx : Nums]
    \cup [tag : {"TooLargeAlign"}, align : Nums, bits : Bits]

NoError == [constructed |-> FALSE]

(***************************************************************************)
(* "{}" of an unsigned integer: its decimal digits.                        *)
(***************************************************************************)
Digit(d) ==
    CASE d = 0 -> "0" [] d = 1 -> "1" [] d = 2 -> "2" [] d = 3 -> "3"
      [] d = 4 -> "4" [] d = 5 -> "5" [] d = 6 -> "6" [] d = 7 -> "7"
      [] d = 8 -> "8" [] d = 9 -> "9"

RECURSIVE Decimal(_)
Decimal(n) ==
    IF n < 10 THEN Digit(n) ELSE Decimal(n \div 10) \o Digit(n % 10)

(***************************************************************************)
(* impl fmt::Display for Ordinal.                                          *)
(***************************************************************************)
OrdinalEnglish(n) ==
    CASE n % 100 \in 11..13 -> Decimal(n) \o "th"
      [] n % 10 = 1 -> Decimal(n) \o "st"
      [] n % 10 = 2 -> Decimal(n) \o "nd"
      [] n % 10 = 3 -> Decimal(n) \o "rd"
      [] OTHER      -> Decimal(n) \o "th"

Ordinal(n) ==
    CASE n % 10 = 1 -> Decimal(n) \o "st"
      [] n % 10 = 2 -> Decimal(n) \o "nd"
      [] n % 10 = 3 -> Decimal(n) \o "rd"
      [] OTHER      -> Decimal(n) \o "th"

(***************************************************************************)
(* ss.join(", ") over the short names of a Vec<ValType>.                   *)
(***************************************************************************)
RECURSIVE JoinNames(_)
JoinNames(tys) ==
    IF Len(tys) = 0 THEN ""
    ELSE IF Len(tys) = 1 THEN ValTypeName(tys[1])
    ELSE ValTypeName(tys[1]) \o ", " \o JoinNames(Tail(tys))

(***************************************************************************)
(* The arms of the match on self.kind in Error's Display, one operator per *)
(* arm (the two CtrlFrameEmpty arms share one operator).                   *)
(***************************************************************************)
IndexOutOfBoundsLine(kind) ==
    kind.what \o " index " \o Decimal(kind.idx)
      \o " out of bounds 0 <= idx < " \o Decimal(kind.upper)

MultipleReturnTypesLine(kind) ==
    "multiple return types are not allowed for now but got ["
      \o JoinNames(kind.tys) \o "]"

TooFewFuncLocalsForParamsSwapped(kind) ==
    "function has " \o Decimal(kind.locals) \o " params > "
      \o Decimal(kind.params) \o " locals"

TooFewFuncLocalsForParamsLine(kind) ==
    "function has " \o Decimal(kind.params) \o " params > "
      \o Decimal(kind.locals) \o " locals"

ParamTypeMismatchWithLocalLine(kind) ==
    "type " \o ValTypeName(kind.param) \o " parameter " \o Ordinal(kind.idx)
      \o " does not match to type of respective local "
      \o ValTypeName(kind.local)

UnknownImportIgnoringCase(kind) ==
    IF kind.mod_name \notin {"env", "Env"}
    THEN "unknown module name '" \o kind.mod_name
           \o "'. valid module name is currently only 'env'"
    ELSE "no exported name '" \o kind.name
           \o "' in module 'env'. currently only 'print' is exported"

UnknownImportLine(kind) ==
    IF kind.mod_name # "env"
    THEN "unknown module name '" \o kind.mod_name
           \o "'. valid module name is currently only 'env'"
    ELSE "no exported name '" \o kind.name
           \o "' in module 'env'. currently only 'print' is exported"

TypeMismatchLine(kind) ==
    "type does not match at '" \o kind.op \o "': expected "
      \o ValTypeName(kind.expected) \o " but got "
      \o ValTypeName(kind.actual)

CtrlFrameEmptyOffByOne(kind) ==
    IF kind.idx_in_op_stack <= 1
    THEN "operand stack cannot be empty at '" \o kind.op
           \o "' instruction while validating instruction sequence starting at offset "
           \o Decimal(kind.frame_start)
    ELSE "empty control frame cannot be empty at '" \o kind.op
           \o "' instruction. the frame started at byte offset "
           \o Decimal(kind.frame_start)
           \o " and top of control frame is op_stack["
           \o Decimal(kind.idx_in_op_stack) \o "]"

CtrlFrameEmptyLine(kind) ==
    IF kind.idx_in_op_stack = 0
    THEN "operand stack cannot be empty at '" \o kind.op
           \o "' instruction while validating instruction sequence starting at offset "
           \o Decimal(kind.frame_start)
    ELSE "empty control frame cannot be empty at '" \o kind.op
           \o "' instruction. the frame started at byte offset "
           \o Decimal(kind.frame_start)
           \o " and top of control frame is op_stack["
           \o Decimal(kind.idx_in_op_stack) \o "]"

LabelStackEmptyLine(kind) ==
    "label stack for control instructions is unexpectedly empty at '"
      \o kind.op \o "' instruction"

SetImmutableGlobalLine(kind) ==
    ValTypeName(kind.ty)
      \o " value cannot be set to immutable global variable "
      \o Decimal(kind.idx)

TooLargeAlignLine(kind) ==
    "align " \o Decimal(kind.align) \o " must not be larger than "
      \o Decimal(kind.bits) \o "bits / 8"

CategoryLineWithoutLastArm(kind) ==
    CASE kind.tag = "IndexOutOfBounds" -> IndexOutOfBoundsLine(kind)
      [] kind.tag = "MultipleReturnTypes" -> MultipleReturnTypesLine(kind)
      [] kind.tag = "TooFewFuncLocalsForParams" ->
           TooFewFuncLocalsForParamsLine(kind)
      [] kind.tag = "ParamTypeMismatchWithLocal" ->
           ParamTypeMismatchWithLocalLine(kind)
      [] kind.tag = "UnknownImport" -> UnknownImportLine(kind)
      [] kind.tag = "TypeMismatch" -> TypeMismatchLine(kind)
      [] kind.tag = "CtrlFrameEmpty" -> CtrlFrameEmptyLine(kind)
      [] kind.tag = "LabelStackEmpty" -> LabelStackEmptyLine(kind)
      [] kind.tag = "SetImmutableGlobal" -> SetImmutableGlobalLine(kind)
      [] OTHER -> ""

\* match &self.kind { ... }
CategoryLine(kind) ==
    CASE kind.tag = "IndexOutOfBounds" -> IndexOutOfBoundsLine(kind)
      [] kind.tag = "MultipleReturnTypes" -> MultipleReturnTypesLine(kind)
      [] kind.tag = "TooFewFuncLocalsForParams" ->
           TooFewFuncLocalsForParamsLine(kind)
      [] kind.tag = "ParamTypeMismatchWithLocal" ->
           ParamTypeMismatchWithLocalLine(kind)
      [] kind.tag = "UnknownImport" -> UnknownImportLine(kind)
      [] kind.tag = "TypeMismatch" -> TypeMismatchLine(kind)
      [] kind.tag = "CtrlFrameEmpty" -> CtrlFrameEmptyLine(kind)
      [] kind.tag = "LabelStackEmpty" -> LabelStackEmptyLine(kind)
      [] kind.tag = "SetImmutableGlobal" -> SetImmutableGlobalLine(kind)
      [] kind.tag = "TooLargeAlign" -> TooLargeAlignLine(kind)

(***************************************************************************)
(* Byte-level helpers of str used by the location clause.                  *)
(***************************************************************************)
ByteAt(s, i) == SubSeq(s, i + 1, i + 1)

\* str::is_char_boundary: 0 and len are boundaries, otherwise the byte at i
\* must not be a UTF-8 continuation byte (0x80..0xBF).
IsCharBoundary(s, i) ==
    IF i = 0 \/ i = Len(s) THEN TRUE
    ELSE IF i > Len(s) THEN FALSE
    ELSE ByteAt(s, i) \notin ContinuationBytes

\* &s[i..]
SliceFrom(s, i) == SubSeq(s, i + 1, Len(s))

\* &s[..end]
SliceTo(s, end) == SubSeq(s, 1, end)

\* s.find(['\n', '\r'].as_ref()).unwrap_or_else(|| s.len())
RECURSIVE FindLineBreakFrom(_, _)
FindLineBreakFrom(s, i) ==
    IF i >= Len(s) THEN Len(s)
    ELSE IF ByteAt(s, i) \in LineBreaks THEN i
    ELSE FindLineBreakFrom(s, i + 1)

FindLineBreak(s) == FindLineBreakFrom(s, 0)

(***************************************************************************)
(* The location clause of Error's Display.  Slicing the source at an       *)
(* offset that is not a character boundary panics before anything of the   *)
(* clause is written.                                                      *)
(***************************************************************************)
LocationClauseOffByOne(source, offset) ==
    IF offset = Len(source) + 1
    THEN [result |-> "ok", sliced |-> FALSE,
          text |-> " caused at byte offset " \o Decimal(offset)
                     \o " (end of input)"]
    ELSE IF ~IsCharBoundary(source, offset)
    THEN [result |-> "panic", sliced |-> TRUE, text |-> ""]
    ELSE LET rest == SliceFrom(source, offset)
             end  == FindLineBreak(rest)
         IN  [result |-> "ok", sliced |-> TRUE,
              text |-> " caused at byte offset " \o Decimal(offset)
                         \o "\n\n ... " \o SliceTo(rest, end)
                         \o "\n     ^\n     starts from here"]

LocationClause(source, offset) ==
    IF offset = Len(source)
    THEN [result |-> "ok", sliced |-> FALSE,
          text |-> " caused at byte offset " \o Decimal(offset)
                     \o " (end of input)"]
    ELSE IF ~IsCharBoundary(source, offset)
    THEN [result |-> "panic", sliced |-> TRUE, text |-> ""]
    ELSE LET rest == SliceFrom(source, offset)
             end  == FindLineBreak(rest)
         IN  [result |-> "ok", sliced |-> TRUE,
              text |-> " caused at byte offset " \o Decimal(offset)
                         \o "\n\n ... " \o SliceTo(rest, end)
                         \o "\n     ^\n     starts from here"]

(***************************************************************************)
(* State machine.                                                          *)
(***************************************************************************)
Init ==
    /\ err = NoError
    /\ f = ""
    /\ result = "none"
    /\ sliced = FALSE
    /\ renders = 0
    /\ ord = 0

\* Error::new(kind, offset, source)
New ==
    /\ err = NoError
    /\ \E kind \in ErrorKind, source \in Sources :
         \E offset \in 0..Len(source) :
            err' = [kind |-> kind, source |-> source, offset |-> offset]
    /\ UNCHANGED <<f, result, sliced, renders, ord>>

FmtAppending ==
    /\ err # NoError
    /\ renders < MaxRenders
    /\ LET loc == LocationClause(err.source, err.offset)
       IN  /\ f' = f \o CategoryLine(err.kind) \o loc.text
           /\ result' = loc.result
           /\ sliced' = loc.sliced
    /\ renders' = renders + 1
    /\ UNCHANGED <<err, ord>>

\* <Error as fmt::Display>::fmt into a fresh formatter
Fmt ==
    /\ err # NoError
    /\ renders < MaxRenders
    /\ LET loc == LocationClause(err.source, err.offset)
       IN  /\ f' = CategoryLine(err.kind) \o loc.text
           /\ result' = loc.result
           /\ sliced' = loc.sliced
    /\ renders' = renders + 1
    /\ UNCHANGED <<err, ord>>

Next == New \/ Fmt

Spec == Init /\ [][Next]_vars

(***************************************************************************)
(* Ordinal on its own: every n in 0..MaxOrd is formatted once.             *)
(***************************************************************************)
OrdinalInit ==
    /\ err = NoError
    /\ f = ""
    /\ result = "none"
    /\ sliced = FALSE
    /\ renders = 0
    /\ ord \in 0..MaxOrd

\* <Ordinal as fmt::Display>::fmt
OrdinalFmt ==
    /\ renders = 0
    /\ f' = Ordinal(ord)
    /\ result' = "ok"
    /\ renders' = 1
    /\ UNCHANGED <<err, sliced, ord>>

OrdinalNext == OrdinalFmt

OrdinalSpec == OrdinalInit /\ [][OrdinalNext]_vars

TypeOK ==
    /\ result \in {"none", "ok", "panic"}
    /\ sliced \in BOOLEAN
    /\ renders \in 0..MaxRenders
(***************************************************************************)
(* Vocabulary of the properties.                                           *)
(***************************************************************************)
StartsWith(s, p) == Len(p) <= Len(s) /\ SubSeq(s, 1, Len(p)) = p

EndsWith(s, p) ==
    Len(p) <= Len(s) /\ SubSeq(s, Len(s) - Len(p) + 1, Len(s)) = p

Contains(s, p) ==
    \E i \in 1..(Len(s) - Len(p) + 1) : SubSeq(s, i, i + Len(p) - 1) = p

\* An Error has been constructed and rendered at least once.
Rendered == err # NoError /\ renders >= 1

\* The text written to the formatter begins with exactly this category
\* line: the location clause follows it directly, or nothing follows it
\* when the rendering was cut short.
HasCategoryLine(line) ==
    IF result = "ok"
    THEN StartsWith(f, line \o " caused at byte offset ")
    ELSE f = line

\* What follows the category line in the rendered text.
AfterCategoryLine ==
    SubSeq(f, Len(CategoryLine(err.kind)) + 1, Len(f))

\* The type names of a sequence in sequence order, joined by ", ".
RECURSIVE CommaJoined(_)
CommaJoined(tys) ==
    LET n == Len(tys)
    IN  IF n = 0 THEN ""
        ELSE IF n = 1 THEN ValTypeName(tys[1])
        ELSE CommaJoined(SubSeq(tys, 1, n - 1)) \o ", " \o ValTypeName(tys[n])

\* The template table of the specification for the variants without a
\* conditional wording.
TemplateLine(kind) ==
    CASE kind.tag = "IndexOutOfBounds" ->
           kind.what \o " index " \o ToString(kind.idx)
             \o " out of bounds 0 <= idx < " \o ToString(kind.upper)
      [] kind.tag = "MultipleReturnTypes" ->
           "multiple return types are not allowed for now but got ["
             \o CommaJoined(kind.tys) \o "]"
      [] kind.tag = "TooFewFuncLocalsForParams" ->
           "function has " \o ToString(kind.params) \o " params > "
             \o ToString(kind.locals) \o " locals"
      [] kind.tag = "TypeMismatch" ->
           "type does not match at '" \o kind.op \o "': expected "
             \o ValTypeName(kind.expected) \o " but got "
             \o ValTypeName(kind.actual)
      [] kind.tag = "LabelStackEmpty" ->
           "label stack for control instructions is unexpectedly empty at '"
             \o kind.op \o "' instruction"
      [] kind.tag = "SetImmutableGlobal" ->
           ValTypeName(kind.ty)
             \o " value cannot be set to immutable global variable "
             \o ToString(kind.idx)
      [] kind.tag = "TooLargeAlign" ->
           "align " \o ToString(kind.align) \o " must not be larger than "
             \o ToString(kind.bits) \o "bits / 8"

TemplateTags ==
    { "IndexOutOfBounds", "MultipleReturnTypes", "TooFewFuncLocalsForParams",
      "TypeMismatch", "LabelStackEmpty", "SetImmutableGlobal",
      "TooLargeAlign" }

\* C1: for the seven variants with an unconditional template, the rendered
\* text starts with exactly the template's category line with the payload
\* substituted (decimal numbers, short type names, types joined by ", " in
\* [ ], params before locals).
C1_TemplateLines ==
    (Rendered /\ err.kind.tag \in TemplateTags)
        => HasCategoryLine(TemplateLine(err.kind))

C1_Witness ==
    /\ Rendered
    /\ err.kind = [tag |-> "TooFewFuncLocalsForParams",
                   locals |-> 2, params |-> 10]
    /\ StartsWith(f, "function has 10 params > 2 locals caused at")

\* C2: with offset equal to the byte length of the source, for every kind,
\* the rendering succeeds, ends with exactly
\* " caused at byte offset {offset} (end of input)", has no excerpt block,
\* and the source is never sliced.
C2_EndOfInput ==
    (Rendered /\ err.offset = Len(err.source)) =>
        /\ result = "ok"
        /\ ~sliced
        /\ EndsWith(f, " caused at byte offset " \o ToString(err.offset)
                         \o " (end of input)")
        /\ AfterCategoryLine = " caused at byte offset "
                                 \o ToString(err.offset) \o " (end of input)"
        /\ ~Contains(f, " ... ")
        /\ ~Contains(f, "^")
        /\ ~Contains(f, "starts from here")
        /\ ~Contains(f, "\n")

C2_Witness ==
    /\ Rendered
    /\ err.source = "a\na"
    /\ err.offset = 3
    /\ EndsWith(f, " caused at byte offset 3 (end of input)")

\* The excerpt as the specification words it: the source from offset up to
\* but not including the first line break at or after offset, or up to the
\* end of the source.
SpecExcerpt(source, offset) ==
    LET breaks == {j \in offset..(Len(source) - 1) :
                      ByteAt(source, j) \in LineBreaks}
        stop   == IF breaks = {} THEN Len(source)
                  ELSE CHOOSE j \in breaks : \A k \in breaks : j <= k
    IN  SubSeq(source, offset + 1, stop)

ExcerptBlock(source, offset) ==
    " caused at byte offset " \o ToString(offset) \o "\n"
      \o "\n"
      \o " ... " \o SpecExcerpt(source, offset) \o "\n"
      \o "     ^" \o "\n"
      \o "     starts from here"

\* C3: for every Error with offset below the byte length of the source the
\* location clause is exactly the excerpt block, whose excerpt holds no line
\* break and is empty when the byte at offset is a line break.
C3_ExcerptBlock ==
    (Rendered /\ err.offset < Len(err.source)) =>
        /\ result = "ok"
        /\ AfterCategoryLine = ExcerptBlock(err.source, err.offset)
        /\ \A b \in LineBreaks :
              ~Contains(SpecExcerpt(err.source, err.offset), b)
        /\ ByteAt(err.source, err.offset) \in LineBreaks
              => SpecExcerpt(err.source, err.offset) = ""

\* C4: rendering is total: for every kind, every source and every byte
\* offset within 0..length, rendering completes and returns a string.
C4_Total == Rendered => result = "ok"

\* C5: ParamTypeMismatchWithLocal with idx = 1, param = i32, local = f64
\* renders the category line with the ordinal "2nd".
C5_SecondParameter ==
    (Rendered /\ err.kind = [tag |-> "ParamTypeMismatchWithLocal",
                             idx |-> 1, param |-> "I32", local |-> "F64"])
        => HasCategoryLine(
             "type i32 parameter 2nd does not match to type of respective local f64")

OrdinalSuffix(n) ==
    LET d == n % 10
    IN  IF d = 1 THEN "st" ELSE IF d = 2 THEN "nd"
        ELSE IF d = 3 THEN "rd" ELSE "th"

\* C6: Ordinal renders n in decimal followed by the suffix chosen by n
\* modulo 10 alone; 11, 12, 13 give "11st", "12nd", "13rd" and 0, 10, 100
\* end in "th".
C6_OrdinalSuffix ==
    (renders = 1) =>
        /\ f = ToString(ord) \o OrdinalSuffix(ord)
        /\ ord = 11 => f = "11st"
        /\ ord = 12 => f = "12nd"
        /\ ord = 13 => f = "13rd"
        /\ ord = 0 => f = "0th"
        /\ ord = 10 => f = "10th"
        /\ ord = 100 => f = "100th"

C6_Witness == renders = 1 /\ ord = 12 /\ f = "12nd"

\* C7: UnknownImport renders the "no exported name" line from name alone
\* when mod_name is exactly "env", and the "unknown module name" line from
\* mod_name alone for every other mod_name.
C7_UnknownImport ==
    (Rendered /\ err.kind.tag = "UnknownImport") =>
        IF err.kind.mod_name = "env"
        THEN HasCategoryLine(
               "no exported name '" \o err.kind.name
                 \o "' in module 'env'. currently only 'print' is exported")
        ELSE HasCategoryLine(
               "unknown module name '" \o err.kind.mod_name
                 \o "'. valid module name is currently only 'env'")

C7_Witness ==
    /\ Rendered
    /\ err.kind = [tag |-> "UnknownImport", mod_name |-> "Env",
                   name |-> "print"]
    /\ StartsWith(f, "unknown module name 'Env'. valid module name is currently only 'env'")

\* C8: CtrlFrameEmpty renders the "operand stack cannot be empty" line
\* without the index when idx_in_op_stack is 0, and the "empty control
\* frame" line showing the index for every other idx_in_op_stack.
C8_CtrlFrameEmpty ==
    (Rendered /\ err.kind.tag = "CtrlFrameEmpty") =>
        IF err.kind.idx_in_op_stack = 0
        THEN HasCategoryLine(
               "operand stack cannot be empty at '" \o err.kind.op
                 \o "' instruction while validating instruction sequence starting at offset "
                 \o ToString(err.kind.frame_start))
        ELSE HasCategoryLine(
               "empty control frame cannot be empty at '" \o err.kind.op
                 \o "' instruction. the frame started at byte offset "
                 \o ToString(err.kind.frame_start)
                 \o " and top of control frame is op_stack["
                 \o ToString(err.kind.idx_in_op_stack) \o "]")

C8_Witness ==
    /\ Rendered
    /\ err.kind = [tag |-> "CtrlFrameEmpty", op |-> "br",
                   frame_start |-> 3, idx_in_op_stack |-> 1]
    /\ Contains(f, "started at byte offset 3 and top of control frame is op_stack[1]")

EveryKindHasLine ==
    /\ err # NoError => err.kind.tag \in ErrorKindTags
    /\ Rendered => (f # "" /\ ~StartsWith(f, " caused at byte offset "))

\* C10 (as claimed): ErrorKind has exactly eleven variants, each with a
\* category line.
C10_ElevenKinds == Cardinality(ErrorKindTags) = 11 /\ EveryKindHasLine

\* C10 (amended): ErrorKind has exactly ten variants, each with a category
\* line.
C10_TenKinds == Cardinality(ErrorKindTags) = 10 /\ EveryKindHasLine

C10_Witness ==
    /\ Rendered
    /\ err.kind.tag = "TooLargeAlign"
    /\ StartsWith(f, "align ")

====
